---- MODULE Spec2Model ----
(***************************************************************************)
(* LeadLens: the App component (form state, the three submit handlers,     *)
(* the settings, voice dictation), the service functions of               *)
(* geminiService.ts and the AnalysisResult component (view selection,      *)
(* CSV export, the list of identified locations).                          *)
(*                                                                         *)
(* Specifications: Spec (the UI session; SpecLive adds that awaited        *)
(* promises settle), SpecForm (the session with the settings in use),     *)
(* SpecVoice (the audit panel with dictation), SpecDictation (result      *)
(* events over drawn descriptions), SpecCsv and SpecRender (the export    *)
(* and the rendering over drawn props), SpecAnalyze (handleAnalyzeImage   *)
(* called on drawn states) and SpecProgress (the loading view with its    *)
(* two intervals firing).                                                  *)
(*                                                                         *)
(* Strings are sequences of atoms.  An atom is either one of the three     *)
(* characters the code treats specially (" " for whitespace, "," and the   *)
(* double quote, "\n") or a run of ordinary characters ("a", "IMAGE",      *)
(* "Business Name").  A nullable value (T | null, T | undefined) is a      *)
(* sequence of length 0 (NULL) or 1 (Some(v)).                             *)
(***************************************************************************)
EXTENDS Integers, Sequences, FiniteSets, TLC

VARIABLES
    mode,             \* App: AppMode
    apiKey,           \* process.env.API_KEY is set
    selectedImage,    \* App: ImageFile | null (the file's identity)
    businessName,     \* App: string
    searchQuery,      \* App: string
    auditDescription, \* App: string
    analysisState,    \* App: AnalysisState
    inflight,         \* service calls awaited by a handler, oldest first
    pitchTone,        \* App: PitchTone
    pitchLength,      \* App: PitchLength
    language,         \* App: OutputLanguage
    isListening,      \* App: boolean
    recognitionRef,   \* App: recognitionRef.current, the session it refers to
    sessions,         \* the SpeechRecognition objects created so far, by state
    speechSupported,  \* window.SpeechRecognition || window.webkitSpeechRecognition
    previewUrl,       \* App: selectedImage.previewUrl, the object URL of the preview
    objectUrls,       \* the object URLs created and not yet revoked
    progress,         \* AnalysisResult: number, in steps of 1/Resolution
    messageIndex,     \* AnalysisResult: number
    intervals,        \* AnalysisResult: how many intervals of each kind are set
    mounted,          \* AnalysisResult is mounted
    resultMode,       \* history: the mode of the request that returned the result
    lastEvent         \* history: what the last operation was and did

\* the pitch configuration and the output language
settingsVars == <<pitchTone, pitchLength, language>>

\* voice dictation
voiceVars == <<isListening, recognitionRef, sessions, speechSupported>>

\* the preview of the selected image
uploaderVars == <<previewUrl, objectUrls>>

\* the loading view of AnalysisResult
loadingVars == <<progress, messageIndex, intervals, mounted>>

vars == <<mode, apiKey, selectedImage, businessName, searchQuery,
          auditDescription, analysisState, inflight, settingsVars, voiceVars,
          uploaderVars, loadingVars, resultMode, lastEvent>>

----------------------------------------------------------------------------
(* Bounds *)

MaxFiles == 2
MaxChunks == 3
MaxSessions == 2       \* SpeechRecognition objects created in one UI session
MaxDescription == 4    \* atoms of the audit description that dictation may reach
Resolution == 1000     \* steps per percentage point kept of the fractional progress

----------------------------------------------------------------------------
(* Values *)

NULL == <<>>
Some(v) == <<v>>
Val(o) == o[1]

SP == " "
QUOTE == "\""
COMMA == ","
NL == "\n"

\* JavaScript truthiness of a string | null | undefined
Truthy(o) == o # NULL /\ Val(o) # <<>>

Modes == {"IMAGE", "SEARCH", "SELF_AUDIT"}

Files == 1..MaxFiles

RECURSIVE TrimStart(_)
TrimStart(s) ==
    IF s # <<>> /\ Head(s) = SP THEN TrimStart(Tail(s)) ELSE s

RECURSIVE TrimEnd(_)
TrimEnd(s) ==
    IF s # <<>> /\ s[Len(s)] = SP THEN TrimEnd(SubSeq(s, 1, Len(s) - 1)) ELSE s

\* String.prototype.trim
Trim(s) == TrimEnd(TrimStart(s))

\* the concatenation of a sequence of strings
RECURSIVE Concat(_)
Concat(ss) == IF ss = <<>> THEN <<>> ELSE Head(ss) \o Concat(Tail(ss))

\* what the user can type into a text field: empty, blank, padded text
TypedStrings == {<<>>, <<SP>>, <<SP, "a", SP>>}

\* the three suggestion buttons under the search field
Suggestions == {<<"Coffee shops without website near me">>,
                <<"Dentists in Chicago">>,
                <<"Roofing companies in Miami">>}

IdleState ==
    [isLoading |-> FALSE, result |-> NULL, groundingMetadata |-> NULL, error |-> NULL]

\* faulty variant: the busy flag set on top of the previous state
LoadingStateKeepingPrevious == [analysisState EXCEPT !.isLoading = TRUE]

\* setAnalysisState({ isLoading: true, result: null, groundingMetadata: null, error: null })
LoadingState ==
    [isLoading |-> TRUE, result |-> NULL, groundingMetadata |-> NULL, error |-> NULL]

isAnalyzing == analysisState.isLoading

\* the history record of an operation; each action fills in what it did
Ev(op) ==
    [op |-> op, handler |-> "none", missing |-> FALSE, dispatched |-> FALSE,
     kind |-> "none", err |-> NULL, calls |-> 0, download |-> NULL, now |-> NULL,
     resp |-> NULL, event |-> NULL, alert |-> FALSE, view |-> "none",
     section |-> NULL]

----------------------------------------------------------------------------
(* AnalysisResult: the simulated progress of the loading view.  The progress *)
(* is a floating-point percentage; the model keeps it in steps of            *)
(* 1/Resolution of a percentage point and drops what is below one step.      *)

\* imageSteps, searchSteps and auditSteps hold six messages each
StepsLength(m) ==
    CASE m = "IMAGE" -> 6
      [] m = "SEARCH" -> 6
      [] m = "SELF_AUDIT" -> 6

\* const remaining = 95 - prev
ProgressCap == 95 * Resolution

\* setProgress(100)
ProgressDone == 100 * Resolution

\* Math.max(0.5, remaining / 15)
MinIncrement == Resolution \div 2

Max(a, b) == IF a >= b THEN a ELSE b

\* the updater the progress interval passes to setProgress
ProgressStep(prev) ==
    LET remaining == ProgressCap - prev
        increment == Max(MinIncrement, remaining \div 15)
    IN  IF remaining <= 0 THEN prev ELSE prev + increment

\* faulty variant: a message index that keeps counting
MessageStepUnbounded(prev, m) == prev + 1

\* the updater the message interval passes to setMessageIndex
MessageStep(prev, m) == IF prev < StepsLength(m) - 1 THEN prev + 1 ELSE prev

NoIntervals == [progress |-> 0, message |-> 0]

\* faulty variant: an effect that returns no cleanup
CleanupSkipped(iv) == iv

\* the cleanup the previous run of the effect returned, if it found isLoading
\* true: clearInterval(progressInterval); clearInterval(messageInterval)
Cleanup(iv) ==
    IF analysisState.isLoading
    THEN [progress |-> iv.progress - 1, message |-> iv.message - 1]
    ELSE iv

\* useEffect(..., [isLoading, mode, steps.length]), run with the render that
\* follows a step of the parent: when a dependency changed, the previous
\* run's cleanup and then the effect
AnalysisResultEffect ==
    IF /\ analysisState'.isLoading = analysisState.isLoading
       /\ mode' = mode
       /\ StepsLength(mode') = StepsLength(mode)
    THEN UNCHANGED <<progress, messageIndex, intervals>>
    ELSE IF analysisState'.isLoading
    THEN /\ progress' = 0
         /\ messageIndex' = 0
         /\ intervals' = [progress |-> Cleanup(intervals).progress + 1,
                          message |-> Cleanup(intervals).message + 1]
    ELSE /\ progress' = ProgressDone
         /\ intervals' = Cleanup(intervals)
         /\ UNCHANGED messageIndex

\* the child components after their first render and its effects, and the
\* history of the result on display
ComponentsInit ==
    /\ previewUrl = IF selectedImage = NULL THEN NULL ELSE Some(1)
    /\ objectUrls = IF selectedImage = NULL THEN {} ELSE {1}
    /\ progress = IF analysisState.isLoading THEN 0 ELSE ProgressDone
    /\ messageIndex = 0
    /\ intervals = IF analysisState.isLoading
                   THEN [progress |-> 1, message |-> 1]
                   ELSE NoIntervals
    /\ mounted = TRUE
    /\ resultMode = IF analysisState.result = NULL THEN "none" ELSE mode

Init ==
    /\ mode = "IMAGE"
    /\ apiKey \in BOOLEAN
    /\ selectedImage = NULL
    /\ businessName = <<>>
    /\ searchQuery = <<>>
    /\ auditDescription = <<>>
    /\ analysisState = IdleState
    /\ inflight = <<>>
    /\ pitchTone = "STANDARD"
    /\ pitchLength = "STANDARD"
    /\ language = "English"
    /\ isListening = FALSE
    /\ recognitionRef = NULL
    /\ sessions = <<>>
    /\ speechSupported = TRUE
    /\ lastEvent = Ev("init")
    /\ ComponentsInit

----------------------------------------------------------------------------
(* Form inputs *)

\* faulty variant: a mode switch that also clears the analysis state
SetModeClearing(m) ==
    /\ mode' = m
    /\ analysisState' = IdleState
    /\ lastEvent' = Ev("setMode")
    /\ UNCHANGED <<settingsVars, voiceVars,
                   apiKey, selectedImage, businessName, searchQuery,
                   auditDescription, inflight>>
    /\ UNCHANGED <<uploaderVars, mounted, resultMode>>
    /\ AnalysisResultEffect

\* the three buttons of the mode switcher
SetMode(m) ==
    /\ mode' = m
    /\ lastEvent' = Ev("setMode")
    /\ UNCHANGED <<settingsVars, voiceVars,
                   apiKey, selectedImage, businessName, searchQuery,
                   auditDescription, analysisState, inflight>>
    /\ UNCHANGED <<uploaderVars, mounted, resultMode>>
    /\ AnalysisResultEffect

\* <input id="businessName" onChange=... disabled={isAnalyzing}>, IMAGE panel
TypeBusinessName(v) ==
    /\ mode = "IMAGE"
    /\ ~isAnalyzing
    /\ businessName' = v
    /\ lastEvent' = Ev("typeBusinessName")
    /\ UNCHANGED <<settingsVars, voiceVars,
                   mode, apiKey, selectedImage, searchQuery, auditDescription,
                   analysisState, inflight>>
    /\ UNCHANGED <<uploaderVars, mounted, resultMode>>
    /\ AnalysisResultEffect

\* faulty variant: a clear that leaves the preview's object URL alive
RevokeSkipped(urls, u) == urls

\* URL.revokeObjectURL(selectedImage.previewUrl)
revokeObjectURL(urls, u) == urls \ {u}

\* URL.createObjectURL(file): a URL that no live object URL equals
createObjectURL(urls) == CHOOSE u \in 1..(Cardinality(urls) + 1) : u \notin urls

\* ImageUploader: the file input is rendered only while no image is selected
SelectImage(f) ==
    /\ mode = "IMAGE"
    /\ selectedImage = NULL
    /\ ~isAnalyzing
    /\ selectedImage' = Some(f)
    /\ lastEvent' = Ev("selectImage")
    /\ UNCHANGED <<settingsVars, voiceVars,
                   mode, apiKey, businessName, searchQuery, auditDescription,
                   analysisState, inflight>>
    /\ previewUrl' = Some(createObjectURL(objectUrls))
    /\ objectUrls' = objectUrls \cup {createObjectURL(objectUrls)}
    /\ UNCHANGED <<mounted, resultMode>>
    /\ AnalysisResultEffect

\* ImageUploader: the remove button is rendered over a selected image, unless disabled
ClearImage ==
    /\ mode = "IMAGE"
    /\ selectedImage # NULL
    /\ ~isAnalyzing
    /\ selectedImage' = NULL
    /\ lastEvent' = Ev("clearImage")
    /\ UNCHANGED <<settingsVars, voiceVars,
                   mode, apiKey, businessName, searchQuery, auditDescription,
                   analysisState, inflight>>
    /\ objectUrls' = revokeObjectURL(objectUrls, Val(previewUrl))
    /\ previewUrl' = NULL
    /\ UNCHANGED <<mounted, resultMode>>
    /\ AnalysisResultEffect

\* faulty variant: the search field without its disabled attribute
SearchInputNeverDisabled == FALSE

\* the search <input onChange=... disabled={isAnalyzing}>, SEARCH panel
SearchInputDisabled == isAnalyzing

TypeSearchQuery(v) ==
    /\ mode = "SEARCH"
    /\ ~SearchInputDisabled
    /\ searchQuery' = v
    /\ lastEvent' = Ev("typeSearchQuery")
    /\ UNCHANGED <<settingsVars, voiceVars,
                   mode, apiKey, selectedImage, businessName, auditDescription,
                   analysisState, inflight>>
    /\ UNCHANGED <<uploaderVars, mounted, resultMode>>
    /\ AnalysisResultEffect

\* the "Try:" buttons; they carry no disabled attribute
ClickSuggestion(q) ==
    /\ mode = "SEARCH"
    /\ searchQuery' = q
    /\ lastEvent' = Ev("clickSuggestion")
    /\ UNCHANGED <<settingsVars, voiceVars,
                   mode, apiKey, selectedImage, businessName, auditDescription,
                   analysisState, inflight>>
    /\ UNCHANGED <<uploaderVars, mounted, resultMode>>
    /\ AnalysisResultEffect

\* <textarea id="auditInput" onChange=...>; it carries no disabled attribute
TypeAuditDescription(v) ==
    /\ mode = "SELF_AUDIT"
    /\ auditDescription' = v
    /\ lastEvent' = Ev("typeAuditDescription")
    /\ UNCHANGED <<settingsVars, voiceVars,
                   mode, apiKey, selectedImage, businessName, searchQuery,
                   analysisState, inflight>>
    /\ UNCHANGED <<uploaderVars, mounted, resultMode>>
    /\ AnalysisResultEffect

----------------------------------------------------------------------------
(* Submit handlers *)

\* a pending call of a service function, as the handler issued it
NewRequest(kind, file, text, calls) ==
    [kind |-> kind, file |-> file, text |-> text,
     phase |-> IF kind = "IMAGE" THEN "reading" ELSE "calling",
     calls |-> calls]

\* faulty variant: a service function that issues the vendor call a second time
CallsIssuedTwice(kind) == 2

\* how many times the try block of a service function invokes
\* ai.models.generateContent
CallsIssued(kind) == 1

\* !businessName || typeof businessName !== 'string' || !businessName.trim()
BusinessNameMissing == businessName = <<>> \/ Trim(businessName) = <<>>

\* faulty variant: the business name passed on as typed
ImageRequestNameUntrimmed == businessName

\* the name handleAnalyzeImage passes on: businessName.trim()
ImageRequestName == Trim(businessName)

\* !searchQuery.trim()
SearchQueryMissing == Trim(searchQuery) = <<>>

\* !auditDescription.trim()
AuditDescriptionMissing == Trim(auditDescription) = <<>>

\* faulty variant: the blank-name branch replacing the whole analysis state
handleAnalyzeImageResetting(op) ==
    IF selectedImage = NULL THEN
        /\ lastEvent' = [Ev(op) EXCEPT !.handler = "handleAnalyzeImage",
                                       !.missing = TRUE]
        /\ UNCHANGED <<analysisState, inflight>>
    ELSE IF BusinessNameMissing THEN
        /\ analysisState' =
              [IdleState EXCEPT !.error =
                  Some(<<"Please enter a valid Business Name before proceeding.">>)]
        /\ lastEvent' = [Ev(op) EXCEPT !.handler = "handleAnalyzeImage",
                                       !.missing = TRUE]
        /\ UNCHANGED inflight
    ELSE
        /\ analysisState' = LoadingState
        /\ inflight' = Append(inflight,
              NewRequest("IMAGE", selectedImage, ImageRequestName, 0))
        /\ lastEvent' = [Ev(op) EXCEPT !.handler = "handleAnalyzeImage",
                                       !.dispatched = TRUE, !.kind = "IMAGE"]

handleAnalyzeImage(op) ==
    IF selectedImage = NULL THEN
        /\ lastEvent' = [Ev(op) EXCEPT !.handler = "handleAnalyzeImage",
                                       !.missing = TRUE]
        /\ UNCHANGED <<analysisState, inflight>>
    ELSE IF BusinessNameMissing THEN
        /\ analysisState' =
              [analysisState EXCEPT !.error =
                  Some(<<"Please enter a valid Business Name before proceeding.">>)]
        /\ lastEvent' = [Ev(op) EXCEPT !.handler = "handleAnalyzeImage",
                                       !.missing = TRUE]
        /\ UNCHANGED inflight
    ELSE
        /\ analysisState' = LoadingState
        /\ inflight' = Append(inflight,
              NewRequest("IMAGE", selectedImage, ImageRequestName, 0))
        /\ lastEvent' = [Ev(op) EXCEPT !.handler = "handleAnalyzeImage",
                                       !.dispatched = TRUE, !.kind = "IMAGE"]

handleSearchLeads(op) ==
    IF SearchQueryMissing THEN
        /\ lastEvent' = [Ev(op) EXCEPT !.handler = "handleSearchLeads",
                                       !.missing = TRUE]
        /\ UNCHANGED <<analysisState, inflight>>
    ELSE
        /\ analysisState' = LoadingState
        /\ inflight' = Append(inflight,
              NewRequest("SEARCH", NULL, searchQuery, CallsIssued("SEARCH")))
        /\ lastEvent' = [Ev(op) EXCEPT !.handler = "handleSearchLeads",
                                       !.dispatched = TRUE, !.kind = "SEARCH",
                                       !.calls = CallsIssued("SEARCH")]

handleSelfAudit(op) ==
    IF AuditDescriptionMissing THEN
        /\ lastEvent' = [Ev(op) EXCEPT !.handler = "handleSelfAudit",
                                       !.missing = TRUE]
        /\ UNCHANGED <<analysisState, inflight>>
    ELSE
        /\ analysisState' = LoadingState
        /\ inflight' = Append(inflight,
              NewRequest("SELF_AUDIT", NULL, auditDescription,
                         CallsIssued("SELF_AUDIT")))
        /\ lastEvent' = [Ev(op) EXCEPT !.handler = "handleSelfAudit",
                                       !.dispatched = TRUE, !.kind = "SELF_AUDIT",
                                       !.calls = CallsIssued("SELF_AUDIT")]

\* faulty variant: the Analyze button without the name in its disabled condition
AnalyzeDisabledIgnoringName ==
    selectedImage = NULL \/ isAnalyzing \/ ~apiKey

\* disabled={!selectedImage || !businessName.trim() || isAnalyzing || !process.env.API_KEY}
AnalyzeDisabled ==
    selectedImage = NULL \/ Trim(businessName) = <<>> \/ isAnalyzing \/ ~apiKey

\* faulty variant: the Find Leads button without the busy flag in its disabled condition
FindLeadsDisabledIgnoringBusy ==
    Trim(searchQuery) = <<>> \/ ~apiKey

\* disabled={!searchQuery.trim() || isAnalyzing || !process.env.API_KEY}
FindLeadsDisabled ==
    Trim(searchQuery) = <<>> \/ isAnalyzing \/ ~apiKey

\* disabled={!auditDescription.trim() || isAnalyzing || !process.env.API_KEY}
StartAuditDisabled ==
    Trim(auditDescription) = <<>> \/ isAnalyzing \/ ~apiKey

ClickAnalyze ==
    /\ mode = "IMAGE"
    /\ ~AnalyzeDisabled
    /\ handleAnalyzeImage("clickAnalyze")
    /\ UNCHANGED <<settingsVars, voiceVars,
                   mode, apiKey, selectedImage, businessName, searchQuery,
                   auditDescription>>
    /\ resultMode' = IF lastEvent'.dispatched THEN "none" ELSE resultMode
    /\ UNCHANGED <<uploaderVars, mounted>>
    /\ AnalysisResultEffect

ClickFindLeads ==
    /\ mode = "SEARCH"
    /\ ~FindLeadsDisabled
    /\ handleSearchLeads("clickFindLeads")
    /\ UNCHANGED <<settingsVars, voiceVars,
                   mode, apiKey, selectedImage, businessName, searchQuery,
                   auditDescription>>
    /\ resultMode' = IF lastEvent'.dispatched THEN "none" ELSE resultMode
    /\ UNCHANGED <<uploaderVars, mounted>>
    /\ AnalysisResultEffect

\* onKeyDown={(e) => e.key === 'Enter' && handleSearchLeads()}
PressEnterInSearch ==
    /\ mode = "SEARCH"
    /\ ~SearchInputDisabled
    /\ handleSearchLeads("pressEnter")
    /\ UNCHANGED <<settingsVars, voiceVars,
                   mode, apiKey, selectedImage, businessName, searchQuery,
                   auditDescription>>
    /\ resultMode' = IF lastEvent'.dispatched THEN "none" ELSE resultMode
    /\ UNCHANGED <<uploaderVars, mounted>>
    /\ AnalysisResultEffect

ClickStartAudit ==
    /\ mode = "SELF_AUDIT"
    /\ ~StartAuditDisabled
    /\ handleSelfAudit("clickStartAudit")
    /\ UNCHANGED <<settingsVars, voiceVars,
                   mode, apiKey, selectedImage, businessName, searchQuery,
                   auditDescription>>
    /\ resultMode' = IF lastEvent'.dispatched THEN "none" ELSE resultMode
    /\ UNCHANGED <<uploaderVars, mounted>>
    /\ AnalysisResultEffect

----------------------------------------------------------------------------
(* The service functions: what the awaited call yields *)

\* values a rejected promise or a throw can carry: an Error with its message,
\* or something that is no Error (FileReader rejects with a ProgressEvent)
ThrownValues ==
    {[isError |-> TRUE, message |-> <<>>],
     [isError |-> TRUE, message |-> <<"quota exceeded">>],
     [isError |-> FALSE, message |-> <<>>]}

NotAnError == [isError |-> FALSE, message |-> <<>>]

\* grounding chunks as the vendor returns them
WebOnlyChunk ==
    [web |-> Some([title |-> Some(<<"w">>), uri |-> Some(<<"http://w">>)]),
     maps |-> NULL]

MapsChunk(t) ==
    [web |-> NULL,
     maps |-> Some([title |-> Some(<<t>>), address |-> Some(<<"1 Main St">>),
                    googleMapsUriString |-> Some(<<"http://maps/", t>>)])]

\* response.candidates?.[0]?.groundingMetadata of the vendor's response
VendorMetadata ==
    {NULL,
     Some([groundingChunks |-> NULL]),
     Some([groundingChunks |-> Some(<<WebOnlyChunk, MapsChunk("a")>>)])}

\* response.text of the vendor's response: absent, empty or a text
VendorTexts == {NULL, Some(<<>>), Some(<<"r", QUOTE>>)}

VendorResponses ==
    {[text |-> t, groundingMetadata |-> g] : t \in VendorTexts, g \in VendorMetadata}

\* faulty variant: a service function that passes an empty text on
FallbackTextEmpty(kind) == <<>>

\* response.text || "..." : the text returned when the vendor's is empty or absent
FallbackText(kind) ==
    IF kind = "SEARCH"
    THEN <<"No leads found. Please try a different query.">>
    ELSE <<"No analysis generated. Please try again.">>

\* faulty variant: every service function passes the vendor's metadata on
ServiceReturnsMetadataAlways(kind, resp) ==
    [text |-> IF Truthy(resp.text) THEN Val(resp.text) ELSE FallbackText(kind),
     groundingMetadata |-> resp.groundingMetadata]

\* the AnalysisResponse a service function returns for the vendor's response
ServiceReturns(kind, resp) ==
    [text |-> IF Truthy(resp.text) THEN Val(resp.text) ELSE FallbackText(kind),
     groundingMetadata |->
        IF kind = "SEARCH" THEN resp.groundingMetadata ELSE NULL]

ErrorPrefix(kind) ==
    CASE kind = "IMAGE" -> <<"Analysis failed: ">>
      [] kind = "SEARCH" -> <<"Search failed: ">>
      [] OTHER -> <<"Audit failed: ">>

UnexpectedText(kind) ==
    CASE kind = "IMAGE" -> <<"An unexpected error occurred during analysis.">>
      [] kind = "SEARCH" -> <<"An unexpected error occurred during search.">>
      [] OTHER -> <<"An unexpected error occurred during audit.">>

\* faulty variant: a catch block that throws on what it caught
ServiceRethrows(kind, caught) == caught

\* the catch block of a service function: what it throws for what it caught
ServiceThrows(kind, caught) ==
    IF caught.isError
    THEN [isError |-> TRUE, message |-> ErrorPrefix(kind) \o caught.message]
    ELSE [isError |-> TRUE, message |-> UnexpectedText(kind)]

\* the catch block of a handler: the message it stores
HandlerErrorMessage(err) ==
    IF err.isError THEN err.message ELSE <<"An unexpected error occurred.">>

\* setAnalysisState after the awaited call returned
ResolvedState(response) ==
    [isLoading |-> FALSE, result |-> Some(response.text),
     groundingMetadata |-> response.groundingMetadata, error |-> NULL]

\* faulty variant: a catch block that leaves the busy flag set
RejectedStateStillLoading(err) ==
    [isLoading |-> TRUE, result |-> NULL, groundingMetadata |-> NULL,
     error |-> Some(HandlerErrorMessage(err))]

\* setAnalysisState in the handler's catch block
RejectedState(err) ==
    [isLoading |-> FALSE, result |-> NULL, groundingMetadata |-> NULL,
     error |-> Some(HandlerErrorMessage(err))]

Remove(q, i) == SubSeq(q, 1, i - 1) \o SubSeq(q, i + 1, Len(q))

\* fileToGenerativePart resolved: analyzeBusinessImage goes on to generateContent
ReadImageOk(i) ==
    /\ i \in 1..Len(inflight)
    /\ inflight[i].phase = "reading"
    /\ inflight' = [inflight EXCEPT ![i].phase = "calling",
                                    ![i].calls = @ + CallsIssued(inflight[i].kind)]
    /\ lastEvent' = [Ev("readOk") EXCEPT !.kind = inflight[i].kind,
                                         !.calls = inflight'[i].calls]
    /\ UNCHANGED <<settingsVars, voiceVars,
                   mode, apiKey, selectedImage, businessName, searchQuery,
                   auditDescription, analysisState>>
    /\ UNCHANGED <<uploaderVars, mounted, resultMode>>
    /\ AnalysisResultEffect

\* reader.onerror = reject: the service catches a non-Error and throws its own
ReadImageFail(i) ==
    /\ i \in 1..Len(inflight)
    /\ inflight[i].phase = "reading"
    /\ analysisState' = RejectedState(ServiceThrows(inflight[i].kind, NotAnError))
    /\ inflight' = Remove(inflight, i)
    /\ lastEvent' = [Ev("readFail") EXCEPT !.kind = inflight[i].kind,
                                           !.err = Some(NotAnError),
                                           !.calls = inflight[i].calls]
    /\ UNCHANGED <<settingsVars, voiceVars,
                   mode, apiKey, selectedImage, businessName, searchQuery,
                   auditDescription>>
    /\ resultMode' = "none"
    /\ UNCHANGED <<uploaderVars, mounted>>
    /\ AnalysisResultEffect

\* generateContent resolved; without a key the client holds a dummy key,
\* which the vendor never accepts
GenerateResolves(i, resp) ==
    /\ i \in 1..Len(inflight)
    /\ inflight[i].phase = "calling"
    /\ apiKey
    /\ analysisState' = ResolvedState(ServiceReturns(inflight[i].kind, resp))
    /\ inflight' = Remove(inflight, i)
    /\ lastEvent' = [Ev("resolve") EXCEPT !.kind = inflight[i].kind,
                                          !.calls = inflight[i].calls,
                                          !.resp = Some(resp)]
    /\ UNCHANGED <<settingsVars, voiceVars,
                   mode, apiKey, selectedImage, businessName, searchQuery,
                   auditDescription>>
    /\ resultMode' = inflight[i].kind
    /\ UNCHANGED <<uploaderVars, mounted>>
    /\ AnalysisResultEffect

\* generateContent rejected or threw
GenerateRejects(i, caught) ==
    /\ i \in 1..Len(inflight)
    /\ inflight[i].phase = "calling"
    /\ analysisState' = RejectedState(ServiceThrows(inflight[i].kind, caught))
    /\ inflight' = Remove(inflight, i)
    /\ lastEvent' = [Ev("reject") EXCEPT !.kind = inflight[i].kind,
                                         !.err = Some(caught),
                                         !.calls = inflight[i].calls]
    /\ UNCHANGED <<settingsVars, voiceVars,
                   mode, apiKey, selectedImage, businessName, searchQuery,
                   auditDescription>>
    /\ resultMode' = "none"
    /\ UNCHANGED <<uploaderVars, mounted>>
    /\ AnalysisResultEffect

----------------------------------------------------------------------------
(* AnalysisResult: which view is rendered, and the CSV export *)

\* faulty variant: the placeholder test placed before the error test
ViewPlaceholderBeforeError(st) ==
    IF st.isLoading THEN "loading"
    ELSE IF ~Truthy(st.result) THEN "placeholder"
    ELSE IF Truthy(st.error) THEN "error"
    ELSE "result"

\* the chain of early returns: if (isLoading) / if (error) / if (!result) / result
View(st) ==
    IF st.isLoading THEN "loading"
    ELSE IF Truthy(st.error) THEN "error"
    ELSE IF ~Truthy(st.result) THEN "placeholder"
    ELSE "result"

\* the article with the result text and the share, export and copy buttons
\* belong to the last return only
ShowsResultControls(st) == View(st) = "result"

\* faulty variant: no doubling of the inner quotes
EscapeQuotesNone(s) == s

\* s.replace(/"/g, '""')
RECURSIVE EscapeQuotes(_)
EscapeQuotes(s) ==
    IF s = <<>> THEN <<>>
    ELSE (IF Head(s) = QUOTE THEN <<QUOTE, QUOTE>> ELSE <<Head(s)>>)
         \o EscapeQuotes(Tail(s))

\* `"${ ... .replace(/"/g, '""')}"`
Quoted(s) == <<QUOTE>> \o EscapeQuotes(s) \o <<QUOTE>>

\* (x || '')
OrEmpty(o) == IF Truthy(o) THEN Val(o) ELSE <<>>

\* Array.prototype.join writes undefined and null as the empty string
JoinPart(o) == IF o = NULL THEN <<>> ELSE Val(o)

\* one row of the lead list
LeadRow(m) ==
    Quoted(OrEmpty(m.title)) \o <<COMMA>> \o Quoted(OrEmpty(m.address))
        \o <<COMMA>> \o JoinPart(m.googleMapsUriString)

\* faulty variant: a chunk that also has a web link is skipped
EmitsRowUnlessWeb(chunk) == chunk.maps # NULL /\ chunk.web = NULL

\* if (chunk.maps) inside the forEach
EmitsRow(chunk) == chunk.maps # NULL

\* groundingChunks.forEach(...): csvString += row + "\n" for the chunks in turn
RECURSIVE AppendRows(_, _)
AppendRows(csvString, chunks) ==
    IF chunks = <<>> THEN csvString
    ELSE AppendRows(
            IF EmitsRow(Head(chunks))
            THEN csvString \o LeadRow(Val(Head(chunks).maps)) \o <<NL>>
            ELSE csvString,
            Tail(chunks))

\* groundingMetadata?.groundingChunks?.some((c) => c.maps)
hasMapData(gm) ==
    /\ gm # NULL
    /\ Val(gm).groundingChunks # NULL
    /\ \E i \in 1..Len(Val(Val(gm).groundingChunks)) :
            Val(Val(gm).groundingChunks)[i].maps # NULL

\* mode === 'SEARCH' && hasMapData
ExportsLeadList(m, gm) == m = "SEARCH" /\ hasMapData(gm)

LeadHeader == <<"Business Name", COMMA, "Address", COMMA, "Google Maps Link", NL>>

GenericHeader == <<"Date", COMMA, "Type", COMMA, "Analysis Content", NL>>

\* the csvString handleExportCSV hands to the download link, NULL when it
\* returns before building one; now is new Date().toISOString()
ExportCsv(result, gm, m, now) ==
    IF ~Truthy(result) THEN NULL
    ELSE IF ExportsLeadList(m, gm)
    THEN Some(AppendRows(LeadHeader, Val(Val(gm).groundingChunks)))
    ELSE Some(GenericHeader \o now \o <<COMMA, m, COMMA>> \o Quoted(Val(result)))

Timestamps == {<<"2026-01-01T00:00:00.000Z">>, <<"2026-01-02T00:00:00.000Z">>}

handleExportCSV(op, now) ==
    /\ lastEvent' =
          [Ev(op) EXCEPT !.handler = "handleExportCSV",
                         !.now = Some(now),
                         !.download = ExportCsv(analysisState.result,
                                                analysisState.groundingMetadata,
                                                mode, now)]
    /\ UNCHANGED <<settingsVars, voiceVars,
                   mode, apiKey, selectedImage, businessName, searchQuery,
                   auditDescription, analysisState, inflight>>
    /\ UNCHANGED <<uploaderVars, mounted, resultMode>>
    /\ AnalysisResultEffect

\* the Export CSV button of the result view
ClickExport(now) ==
    /\ ShowsResultControls(analysisState)
    /\ handleExportCSV("clickExport", now)

\* faulty variant: only map places pass the filter
ChunkShownMapsOnly(chunk) == chunk.maps # NULL

\* groundingChunks.filter((chunk) => chunk.web || chunk.maps)
ChunkShown(chunk) == chunk.web # NULL \/ chunk.maps # NULL

\* (webData.title || webData.uri)
TitleOrUri(w) == IF Truthy(w.title) THEN w.title ELSE w.uri

\* the list item chunks.map(...) renders for a chunk: the map-place anchor
\* when chunk.maps, else the web anchor when chunk.web, else nothing
ChunkItem(chunk) ==
    IF chunk.maps # NULL THEN
        [type |-> "maps", href |-> Val(chunk.maps).googleMapsUriString,
         title |-> Val(chunk.maps).title, address |-> Val(chunk.maps).address]
    ELSE IF chunk.web # NULL THEN
        [type |-> "web", href |-> Val(chunk.web).uri,
         title |-> TitleOrUri(Val(chunk.web)), address |-> NULL]
    ELSE
        [type |-> "none", href |-> NULL, title |-> NULL, address |-> NULL]

\* the items of the 'Identified Locations' section, NULL when the function
\* returns null
renderGroundingChunks(gm) ==
    IF gm = NULL \/ Val(gm).groundingChunks = NULL THEN NULL
    ELSE LET chunks == SelectSeq(Val(Val(gm).groundingChunks), ChunkShown) IN
         IF Len(chunks) = 0 THEN NULL
         ELSE Some([i \in 1..Len(chunks) |-> ChunkItem(chunks[i])])

----------------------------------------------------------------------------
(* The UI session *)

Next ==
    \/ \E m \in Modes : SetMode(m)
    \/ \E v \in TypedStrings : TypeBusinessName(v)
    \/ \E f \in Files : SelectImage(f)
    \/ ClearImage
    \/ \E v \in TypedStrings : TypeSearchQuery(v)
    \/ \E q \in Suggestions : ClickSuggestion(q)
    \/ \E v \in TypedStrings : TypeAuditDescription(v)
    \/ ClickAnalyze
    \/ ClickFindLeads
    \/ PressEnterInSearch
    \/ ClickStartAudit
    \/ \E i \in 1..Len(inflight) : ReadImageOk(i)
    \/ \E i \in 1..Len(inflight) : ReadImageFail(i)
    \/ \E i \in 1..Len(inflight), resp \in VendorResponses : GenerateResolves(i, resp)
    \/ \E i \in 1..Len(inflight), caught \in ThrownValues : GenerateRejects(i, caught)
    \/ \E now \in Timestamps : ClickExport(now)

Spec == Init /\ [][Next]_vars

\* a pending promise settles: the FileReader fires onloadend or onerror, the
\* vendor call resolves or rejects
Settle ==
    \E i \in 1..Len(inflight) :
        \/ ReadImageOk(i)
        \/ ReadImageFail(i)
        \/ \E resp \in VendorResponses : GenerateResolves(i, resp)
        \/ \E caught \in ThrownValues : GenerateRejects(i, caught)

\* the UI session under the assumption that no awaited promise stays pending
\* for ever; nothing the user does while a handler awaits withdraws the
\* promise, so weak fairness is the assumption
SpecLive == Spec /\ WF_vars(Settle)

----------------------------------------------------------------------------
(* The pitch configuration and the output language *)

\* two of the ten supportedLanguages
Languages == {"English", "Portuguese (Portugal)"}

PitchTones == {"STANDARD", "PAIN_FOCUSED"}

PitchLengths == {"SHORT", "STANDARD"}

\* <select value={language} onChange=... disabled={isAnalyzing}>, every panel
SetLanguage(l) ==
    /\ ~isAnalyzing
    /\ language' = l
    /\ lastEvent' = Ev("setLanguage")
    /\ UNCHANGED <<voiceVars, pitchTone, pitchLength, mode, apiKey, selectedImage,
                   businessName, searchQuery, auditDescription, analysisState,
                   inflight>>
    /\ UNCHANGED <<uploaderVars, mounted, resultMode>>
    /\ AnalysisResultEffect

\* <select value={pitchTone} onChange=... disabled={isAnalyzing}>, IMAGE and
\* SEARCH panels
SetPitchTone(t) ==
    /\ mode \in {"IMAGE", "SEARCH"}
    /\ ~isAnalyzing
    /\ pitchTone' = t
    /\ lastEvent' = Ev("setPitchTone")
    /\ UNCHANGED <<voiceVars, pitchLength, language, mode, apiKey, selectedImage,
                   businessName, searchQuery, auditDescription, analysisState,
                   inflight>>
    /\ UNCHANGED <<uploaderVars, mounted, resultMode>>
    /\ AnalysisResultEffect

\* <select value={pitchLength} onChange=... disabled={isAnalyzing}>, IMAGE and
\* SEARCH panels
SetPitchLength(l) ==
    /\ mode \in {"IMAGE", "SEARCH"}
    /\ ~isAnalyzing
    /\ pitchLength' = l
    /\ lastEvent' = Ev("setPitchLength")
    /\ UNCHANGED <<voiceVars, pitchTone, language, mode, apiKey, selectedImage,
                   businessName, searchQuery, auditDescription, analysisState,
                   inflight>>
    /\ UNCHANGED <<uploaderVars, mounted, resultMode>>
    /\ AnalysisResultEffect

\* the vendor's outcomes that the session with settings draws from
FormResponses ==
    {[text |-> Some(<<"r", QUOTE>>),
      groundingMetadata |-> Some([groundingChunks |-> Some(<<MapsChunk("a")>>)])]}

FormThrownValues == {[isError |-> TRUE, message |-> <<"quota exceeded">>]}

\* the UI session with the settings in use
NextForm ==
    \/ \E m \in Modes : SetMode(m)
    \/ \E v \in TypedStrings : TypeBusinessName(v)
    \/ \E f \in Files : SelectImage(f)
    \/ ClearImage
    \/ \E v \in TypedStrings : TypeSearchQuery(v)
    \/ \E q \in Suggestions : ClickSuggestion(q)
    \/ \E v \in TypedStrings : TypeAuditDescription(v)
    \/ ClickAnalyze
    \/ ClickFindLeads
    \/ PressEnterInSearch
    \/ ClickStartAudit
    \/ \E i \in 1..Len(inflight) : ReadImageOk(i)
    \/ \E i \in 1..Len(inflight) : ReadImageFail(i)
    \/ \E i \in 1..Len(inflight), resp \in FormResponses : GenerateResolves(i, resp)
    \/ \E i \in 1..Len(inflight), caught \in FormThrownValues : GenerateRejects(i, caught)
    \/ \E l \in Languages : SetLanguage(l)
    \/ \E t \in PitchTones : SetPitchTone(t)
    \/ \E l \in PitchLengths : SetPitchLength(l)

SpecForm == Init /\ [][NextForm]_vars

----------------------------------------------------------------------------
(* Voice dictation: toggleListening and the events of the sessions it starts. *)
(* A session is "starting" once start() was called, "capturing" after its     *)
(* start event, "stopping" after stop() ("stoppingEarly" when stop() came     *)
(* before the start event, which the browser may or may not still deliver),   *)
(* "failed" after its error event and "ended" after its end event.            *)

\* faulty variant: a toggle that forgets to call stop()
StopIgnored(st) == st

\* SpeechRecognition.stop()
StopRequested(st) ==
    CASE st = "starting" -> "stoppingEarly"
      [] st = "capturing" -> "stopping"
      [] OTHER -> st

\* if (recognitionRef.current) recognitionRef.current.stop()
StopCurrent ==
    IF recognitionRef = NULL THEN sessions
    ELSE [sessions EXCEPT ![Val(recognitionRef)] = StopRequested(@)]

toggleListening(op) ==
    IF isListening THEN
        /\ sessions' = StopCurrent
        /\ isListening' = FALSE
        /\ lastEvent' = [Ev(op) EXCEPT !.handler = "toggleListening"]
        /\ UNCHANGED recognitionRef
    ELSE IF ~speechSupported THEN
        /\ lastEvent' = [Ev(op) EXCEPT !.handler = "toggleListening",
                                       !.alert = TRUE]
        /\ UNCHANGED <<isListening, recognitionRef, sessions>>
    ELSE
        /\ Len(sessions) < MaxSessions
        /\ sessions' = Append(sessions, "starting")
        /\ recognitionRef' = Some(Len(sessions) + 1)
        /\ lastEvent' = [Ev(op) EXCEPT !.handler = "toggleListening"]
        /\ UNCHANGED isListening

\* the microphone button of the SELF_AUDIT panel; it carries no disabled attribute
ClickMic ==
    /\ mode = "SELF_AUDIT"
    /\ toggleListening("clickMic")
    /\ UNCHANGED <<settingsVars, speechSupported, mode, apiKey, selectedImage,
                   businessName, searchQuery, auditDescription, analysisState,
                   inflight>>
    /\ UNCHANGED <<uploaderVars, mounted, resultMode>>
    /\ AnalysisResultEffect

\* recognition.onstart = () => setIsListening(true)
OnStart(s) ==
    /\ s \in 1..Len(sessions)
    /\ sessions[s] \in {"starting", "stoppingEarly"}
    /\ sessions' = [sessions EXCEPT
                       ![s] = IF @ = "starting" THEN "capturing" ELSE "stopping"]
    /\ isListening' = TRUE
    /\ lastEvent' = Ev("onstart")
    /\ UNCHANGED <<settingsVars, recognitionRef, speechSupported, mode, apiKey,
                   selectedImage, businessName, searchQuery, auditDescription,
                   analysisState, inflight>>
    /\ UNCHANGED <<uploaderVars, mounted, resultMode>>
    /\ AnalysisResultEffect

\* recognition.onend = () => setIsListening(false); a session ends after
\* stop(), after an error, or when the browser gives up listening
OnEnd(s) ==
    /\ s \in 1..Len(sessions)
    /\ sessions[s] \in {"capturing", "stopping", "stoppingEarly", "failed"}
    /\ sessions' = [sessions EXCEPT ![s] = "ended"]
    /\ isListening' = FALSE
    /\ lastEvent' = Ev("onend")
    /\ UNCHANGED <<settingsVars, recognitionRef, speechSupported, mode, apiKey,
                   selectedImage, businessName, searchQuery, auditDescription,
                   analysisState, inflight>>
    /\ UNCHANGED <<uploaderVars, mounted, resultMode>>
    /\ AnalysisResultEffect

\* faulty variant: a recognition error surfaced through the analysis state
OnErrorSurfaced(s) ==
    /\ s \in 1..Len(sessions)
    /\ sessions[s] \in {"starting", "capturing", "stopping", "stoppingEarly"}
    /\ sessions' = [sessions EXCEPT ![s] = "failed"]
    /\ isListening' = FALSE
    /\ analysisState' = [analysisState EXCEPT
                            !.error = Some(<<"Speech recognition error">>)]
    /\ lastEvent' = Ev("onerror")
    /\ UNCHANGED <<settingsVars, recognitionRef, speechSupported, mode, apiKey,
                   selectedImage, businessName, searchQuery, auditDescription,
                   inflight>>
    /\ UNCHANGED <<uploaderVars, mounted, resultMode>>
    /\ AnalysisResultEffect

\* recognition.onerror = (event) => { console.error(...); setIsListening(false) }
OnError(s) ==
    /\ s \in 1..Len(sessions)
    /\ sessions[s] \in {"starting", "capturing", "stopping", "stoppingEarly"}
    /\ sessions' = [sessions EXCEPT ![s] = "failed"]
    /\ isListening' = FALSE
    /\ lastEvent' = Ev("onerror")
    /\ UNCHANGED <<settingsVars, recognitionRef, speechSupported, mode, apiKey,
                   selectedImage, businessName, searchQuery, auditDescription,
                   analysisState, inflight>>
    /\ UNCHANGED <<uploaderVars, mounted, resultMode>>
    /\ AnalysisResultEffect

\* one SpeechRecognitionResult: results[i].isFinal and results[i][0].transcript
Interim(t) == [isFinal |-> FALSE, transcript |-> t]

Final(t) == [isFinal |-> TRUE, transcript |-> t]

\* result events of a continuous session with interim results: the list of
\* results so far and the index of the first one that changed
RecognitionEvents ==
    {[resultIndex |-> 0, results |-> <<Interim(<<"x">>)>>],
     [resultIndex |-> 0, results |-> <<Final(<<"x">>)>>],
     [resultIndex |-> 0, results |-> <<Final(<<>>)>>],
     [resultIndex |-> 0, results |-> <<Final(<<"x">>), Interim(<<"y">>)>>],
     [resultIndex |-> 0, results |-> <<Final(<<"x">>), Final(<<"y">>)>>],
     [resultIndex |-> 1, results |-> <<Final(<<"x">>), Final(<<SP, "y">>)>>]}

\* for (let i = event.resultIndex; i < event.results.length; ++i): the
\* transcripts of the final (or of the interim) results, concatenated
RECURSIVE Transcript(_, _, _)
Transcript(results, i, final) ==
    IF i >= Len(results) THEN <<>>
    ELSE (IF results[i + 1].isFinal = final THEN results[i + 1].transcript ELSE <<>>)
         \o Transcript(results, i + 1, final)

finalTranscript(event) == Transcript(event.results, event.resultIndex, TRUE)

interimTranscript(event) == Transcript(event.results, event.resultIndex, FALSE)

\* faulty variant: a space before every dictated piece
SeparatorAlways(prev) == <<SP>>

\* prev.length > 0 && !prev.endsWith(' ') ? ' ' : ''
Separator(prev) ==
    IF Len(prev) > 0 /\ prev[Len(prev)] # SP THEN <<SP>> ELSE <<>>

\* if (finalTranscript) setAuditDescription(prev => prev + separator + finalTranscript)
onresult(prev, event) ==
    IF finalTranscript(event) # <<>>
    THEN prev \o Separator(prev) \o finalTranscript(event)
    ELSE prev

OnResult(s, event) ==
    /\ s \in 1..Len(sessions)
    /\ sessions[s] \in {"capturing", "stopping"}
    /\ Len(onresult(auditDescription, event)) <= MaxDescription
    /\ auditDescription' = onresult(auditDescription, event)
    /\ lastEvent' = [Ev("onresult") EXCEPT !.event = Some(event)]
    /\ UNCHANGED <<settingsVars, voiceVars, mode, apiKey, selectedImage,
                   businessName, searchQuery, analysisState, inflight>>
    /\ UNCHANGED <<uploaderVars, mounted, resultMode>>
    /\ AnalysisResultEffect

\* the panels the dictating user visits, the result events and the vendor's
\* outcomes that the dictation session draws from
VoiceModes == {"IMAGE", "SELF_AUDIT"}

VoiceEvents ==
    {[resultIndex |-> 0, results |-> <<Interim(<<"x">>)>>],
     [resultIndex |-> 0, results |-> <<Final(<<"x">>)>>]}

VoiceResponses == {[text |-> Some(<<"r", QUOTE>>), groundingMetadata |-> NULL]}

VoiceThrownValues == {[isError |-> TRUE, message |-> <<"quota exceeded">>]}

InitVoice ==
    /\ mode = "IMAGE"
    /\ apiKey = TRUE
    /\ selectedImage = NULL
    /\ businessName = <<>>
    /\ searchQuery = <<>>
    /\ auditDescription = <<>>
    /\ analysisState = IdleState
    /\ inflight = <<>>
    /\ pitchTone = "STANDARD"
    /\ pitchLength = "STANDARD"
    /\ language = "English"
    /\ isListening = FALSE
    /\ recognitionRef = NULL
    /\ sessions = <<>>
    /\ speechSupported \in BOOLEAN
    /\ lastEvent = Ev("init")
    /\ ComponentsInit

\* the audit panel with dictation: typing, dictating and submitting an audit
NextVoice ==
    \/ \E m \in VoiceModes : SetMode(m)
    \/ \E v \in TypedStrings : TypeAuditDescription(v)
    \/ ClickStartAudit
    \/ \E i \in 1..Len(inflight), resp \in VoiceResponses : GenerateResolves(i, resp)
    \/ \E i \in 1..Len(inflight), caught \in VoiceThrownValues : GenerateRejects(i, caught)
    \/ ClickMic
    \/ \E s \in 1..Len(sessions) : OnStart(s)
    \/ \E s \in 1..Len(sessions) : OnEnd(s)
    \/ \E s \in 1..Len(sessions) : OnError(s)
    \/ \E s \in 1..Len(sessions), event \in VoiceEvents : OnResult(s, event)

SpecVoice == InitVoice /\ [][NextVoice]_vars

----------------------------------------------------------------------------
(* The export as a function of the component's props *)

SeqsUpTo(S, n) == UNION {[1..k -> S] : k \in 0..n}

BothChunk ==
    [web |-> Some([title |-> Some(<<"w">>), uri |-> Some(<<"http://w">>)]),
     maps |-> Some([title |-> Some(<<"c">>), address |-> Some(<<"2 Side St">>),
                    googleMapsUriString |-> Some(<<"http://maps/c">>)])]

EmptyChunk == [web |-> NULL, maps |-> NULL]

\* chunk lists of any shape, with plain field values
PlainChunks == {WebOnlyChunk, MapsChunk("a"), MapsChunk("b"), BothChunk, EmptyChunk}

\* a title, an address or a link: missing, plain, or holding a comma, double
\* quotes or a line break
FieldValues ==
    {NULL, Some(<<"a">>), Some(<<"a", COMMA, "b">>), Some(<<QUOTE, "a", QUOTE>>),
     Some(<<"a", NL, "b">>)}

\* one map-place chunk with every combination of field values
RichChunks ==
    {[web |-> NULL,
      maps |-> Some([title |-> t, address |-> a, googleMapsUriString |-> l])] :
        t \in FieldValues, a \in FieldValues, l \in FieldValues}

PropsMetadata ==
    {NULL, Some([groundingChunks |-> NULL])}
    \cup {Some([groundingChunks |-> Some(l)]) : l \in SeqsUpTo(PlainChunks, MaxChunks)}
    \cup {Some([groundingChunks |-> Some(<<c>>)]) : c \in RichChunks}

PropsResults ==
    {NULL, Some(<<>>), Some(<<"r">>), Some(<<"say ", QUOTE, "hi", QUOTE, COMMA, NL, "bye">>)}

InitCsv ==
    /\ mode \in Modes
    /\ apiKey = TRUE
    /\ selectedImage = NULL
    /\ businessName = <<>>
    /\ searchQuery = <<>>
    /\ auditDescription = <<>>
    /\ analysisState \in
          {[isLoading |-> FALSE, result |-> r, groundingMetadata |-> g, error |-> NULL] :
              r \in PropsResults, g \in PropsMetadata}
    /\ inflight = <<>>
    /\ pitchTone = "STANDARD"
    /\ pitchLength = "STANDARD"
    /\ language = "English"
    /\ isListening = FALSE
    /\ recognitionRef = NULL
    /\ sessions = <<>>
    /\ speechSupported = TRUE
    /\ lastEvent = Ev("init")
    /\ ComponentsInit

\* handleExportCSV called on the props as they are
CallExport(now) == handleExportCSV("callExport", now)

NextCsv == \E now \in Timestamps : CallExport(now)

SpecCsv == InitCsv /\ [][NextCsv]_vars

----------------------------------------------------------------------------
(* The rendering as a function of the component's props *)

\* AnalysisResult renders: the view, and in the result view the section
\* {renderGroundingChunks()}
Render ==
    /\ lastEvent' =
          [Ev("render") EXCEPT
              !.view = View(analysisState),
              !.section =
                  IF View(analysisState) = "result"
                  THEN renderGroundingChunks(analysisState.groundingMetadata)
                  ELSE NULL]
    /\ UNCHANGED <<settingsVars, voiceVars,
                   mode, apiKey, selectedImage, businessName, searchQuery,
                   auditDescription, analysisState, inflight>>
    /\ UNCHANGED <<uploaderVars, mounted, resultMode>>
    /\ AnalysisResultEffect

NextRender == Render

SpecRender == InitCsv /\ [][NextRender]_vars

----------------------------------------------------------------------------
(* recognition.onresult as a function of the description and the event *)

\* what the textarea holds when a result event arrives
DictationTexts == SeqsUpTo({SP, "a"}, 3)

\* the audit panel with one capturing session
InitDictation ==
    /\ mode = "SELF_AUDIT"
    /\ apiKey = TRUE
    /\ selectedImage = NULL
    /\ businessName = <<>>
    /\ searchQuery = <<>>
    /\ auditDescription \in DictationTexts
    /\ analysisState = IdleState
    /\ inflight = <<>>
    /\ pitchTone = "STANDARD"
    /\ pitchLength = "STANDARD"
    /\ language = "English"
    /\ isListening = TRUE
    /\ recognitionRef = Some(1)
    /\ sessions = <<"capturing">>
    /\ speechSupported = TRUE
    /\ lastEvent = Ev("init")
    /\ ComponentsInit

\* result events arrive while the user edits the textarea
NextDictation ==
    \/ \E event \in RecognitionEvents : OnResult(1, event)
    \/ \E v \in DictationTexts : TypeAuditDescription(v)

SpecDictation == InitDictation /\ [][NextDictation]_vars

----------------------------------------------------------------------------
(* Reading a CSV text back (RFC 4180): records of fields, quoted fields with *)
(* doubled quotes; a quote inside an unquoted field, text after a closing   *)
(* quote and an unclosed quote are malformed.                               *)

RECURSIVE CsvScan(_, _, _, _, _, _)
CsvScan(s, i, st, field, rec, recs) ==
    IF i > Len(s) THEN
        IF st = "quoted" THEN [ok |-> FALSE, records |-> recs]
        ELSE IF st = "recordStart" THEN [ok |-> TRUE, records |-> recs]
        ELSE [ok |-> TRUE, records |-> Append(recs, Append(rec, field))]
    ELSE
        LET c == s[i] IN
        IF st = "quoted" THEN
            IF c = QUOTE THEN CsvScan(s, i + 1, "quoteSeen", field, rec, recs)
            ELSE CsvScan(s, i + 1, "quoted", Append(field, c), rec, recs)
        ELSE IF c = COMMA THEN
            CsvScan(s, i + 1, "fieldStart", <<>>, Append(rec, field), recs)
        ELSE IF c = NL THEN
            CsvScan(s, i + 1, "recordStart", <<>>, <<>>, Append(recs, Append(rec, field)))
        ELSE IF c = QUOTE THEN
            IF st \in {"recordStart", "fieldStart"}
            THEN CsvScan(s, i + 1, "quoted", <<>>, rec, recs)
            ELSE IF st = "quoteSeen"
            THEN CsvScan(s, i + 1, "quoted", Append(field, QUOTE), rec, recs)
            ELSE [ok |-> FALSE, records |-> recs]
        ELSE
            IF st = "quoteSeen" THEN [ok |-> FALSE, records |-> recs]
            ELSE CsvScan(s, i + 1, "unquoted", Append(field, c), rec, recs)

ParseCsv(s) == CsvScan(s, 1, "recordStart", <<>>, <<>>, <<>>)

----------------------------------------------------------------------------
(* Properties of the UI session (Spec) *)

SettleOps == {"resolve", "reject", "readFail"}

SubmitHandlers == {"handleAnalyzeImage", "handleSearchLeads", "handleSelfAudit"}

\* C1: in every reachable state at most one call of a service function has
\* been dispatched and not yet settled.
C1_AtMostOneInFlight == Len(inflight) <= 1

\* C1 witness: a request is in flight while the user has switched to the
\* panel of another mode.
C1_Witness ==
    /\ Len(inflight) = 1
    /\ mode # inflight[1].kind
    /\ lastEvent.op = "setMode"

\* C2: isLoading is true exactly when a request is outstanding, and while it
\* is true none of the four submit paths can be taken.
C2_BusyFlagTracksRequest ==
    /\ isAnalyzing <=> Len(inflight) > 0
    /\ isAnalyzing =>
          /\ ~ENABLED ClickAnalyze
          /\ ~ENABLED ClickFindLeads
          /\ ~ENABLED PressEnterInSearch
          /\ ~ENABLED ClickStartAudit

\* C2 witness: a search submitted with Enter is in flight and the search
\* panel is shown with a query and a key that would otherwise allow a submit.
C2_Witness ==
    /\ isAnalyzing
    /\ Len(inflight) = 1
    /\ mode = "SEARCH"
    /\ apiKey
    /\ Trim(searchQuery) # <<>>
    /\ lastEvent.op = "pressEnter"

\* C3: every dispatched request carries the required fields of its mode: an
\* image request the selected image and the trimmed, non-empty business
\* name; a search request a query that is not blank; an audit request a
\* description that is not blank.
C3_DispatchOnlyWithRequiredFields ==
    \A i \in 1..Len(inflight) :
        LET r == inflight[i] IN
        /\ r.kind = "IMAGE" =>
              /\ r.file # NULL
              /\ r.file = selectedImage
              /\ r.text # <<>>
              /\ r.text = Trim(businessName)
              /\ Head(r.text) # SP /\ r.text[Len(r.text)] # SP
        /\ r.kind = "SEARCH" => r.file = NULL /\ Trim(r.text) # <<>>
        /\ r.kind = "SELF_AUDIT" => r.file = NULL /\ Trim(r.text) # <<>>

\* C3 witness: an image request was just dispatched for a business name
\* typed with surrounding blanks.
C3_Witness ==
    /\ lastEvent.op = "clickAnalyze"
    /\ lastEvent.dispatched
    /\ Len(inflight) = 1
    /\ inflight[1].kind = "IMAGE"
    /\ businessName # Trim(businessName)

\* C4 (as claimed): whenever a submit handler runs with its required input
\* missing, analysisState.error is a message afterwards and no request was
\* sent.
C4_MissingInputSurfaced ==
    (lastEvent.handler \in SubmitHandlers /\ lastEvent.missing) =>
        /\ analysisState.error # NULL
        /\ ~lastEvent.dispatched

\* the message C5 expects for a failure of a request of the given mode
C5_ExpectedMessage(kind, caught) ==
    IF caught.isError
    THEN (CASE kind = "IMAGE" -> <<"Analysis failed: ">>
            [] kind = "SEARCH" -> <<"Search failed: ">>
            [] kind = "SELF_AUDIT" -> <<"Audit failed: ">>) \o caught.message
    ELSE (CASE kind = "IMAGE" -> <<"An unexpected error occurred during analysis.">>
            [] kind = "SEARCH" -> <<"An unexpected error occurred during search.">>
            [] kind = "SELF_AUDIT" -> <<"An unexpected error occurred during audit.">>)

\* C5: when a dispatched request fails the analysis state is exactly
\* {isLoading: false, result: null, groundingMetadata: null, error: message}
\* with the non-empty message of the mode: its prefix and the underlying
\* message for an Error, its fixed text otherwise.
C5_FailureSurfaced ==
    lastEvent.op \in {"reject", "readFail"} =>
        LET m == C5_ExpectedMessage(lastEvent.kind, Val(lastEvent.err)) IN
        /\ m # <<>>
        /\ analysisState =
              [isLoading |-> FALSE, result |-> NULL, groundingMetadata |-> NULL,
               error |-> Some(m)]

\* C5 witness: an audit request failed with a thrown value that is no Error.
C5_Witness ==
    /\ lastEvent.op = "reject"
    /\ lastEvent.kind = "SELF_AUDIT"
    /\ ~Val(lastEvent.err).isError

\* C6 (as claimed): every accepted submission has caused exactly one call of
\* generateContent when it settles.
C6_ExactlyOneCall ==
    lastEvent.op \in SettleOps => lastEvent.calls = 1

\* C6 (amended): a submission causes at most one call of generateContent:
\* exactly one when generateContent settles it, none when reading the image
\* file fails before the call; and once a request has settled none is
\* pending until the user submits again.
C6_AtMostOneCall ==
    /\ \A i \in 1..Len(inflight) :
          /\ inflight[i].calls \in {0, 1}
          /\ inflight[i].calls = 0 <=>
                (inflight[i].kind = "IMAGE" /\ inflight[i].phase = "reading")
    /\ lastEvent.op \in {"resolve", "reject"} => lastEvent.calls = 1
    /\ lastEvent.op = "readFail" => lastEvent.calls = 0 /\ lastEvent.kind = "IMAGE"
    /\ lastEvent.op \in SettleOps => inflight = <<>>

\* C6 witness: an image submission settled by the failure to read its file.
C6_Witness ==
    /\ lastEvent.op = "readFail"
    /\ analysisState.error # NULL
    /\ ~isAnalyzing

C11_ExpectedText(kind, text) ==
    IF text = NULL \/ text = Some(<<>>)
    THEN IF kind = "SEARCH"
         THEN <<"No leads found. Please try a different query.">>
         ELSE <<"No analysis generated. Please try again.">>
    ELSE Val(text)

\* C11: after a successful request analysisState.result is a non-empty
\* string: the vendor's text, or the fallback message of the mode when the
\* vendor's text is empty or absent; the placeholder view is not shown.
C11_SuccessHasText ==
    lastEvent.op = "resolve" =>
        LET t == C11_ExpectedText(lastEvent.kind, Val(lastEvent.resp).text) IN
        /\ t # <<>>
        /\ analysisState.result = Some(t)
        /\ ~analysisState.isLoading
        /\ analysisState.error = NULL
        /\ View(analysisState) = "result"

\* C11 witness: a search succeeded with an empty vendor text and the result
\* is the search fallback message.
C11_Witness ==
    /\ lastEvent.op = "resolve"
    /\ lastEvent.kind = "SEARCH"
    /\ Val(lastEvent.resp).text = Some(<<>>)
    /\ analysisState.result = Some(<<"No leads found. Please try a different query.">>)

\* C12: analysisState.groundingMetadata is set only by a successful search,
\* to the grounding metadata of the response's first candidate; every other
\* settled request (image, audit, failure) and every newly started request
\* sets it to null, and nothing else changes it.  Hence it is non-null only
\* if the most recently completed request was a successful search whose
\* first candidate carried grounding metadata.
C12_MetadataOnlyFromSearch ==
    [][IF lastEvent'.op = "resolve" /\ lastEvent'.kind = "SEARCH"
       THEN analysisState'.groundingMetadata = Val(lastEvent'.resp).groundingMetadata
       ELSE IF lastEvent'.op \in SettleOps \/ lastEvent'.dispatched
       THEN analysisState'.groundingMetadata = NULL
       ELSE analysisState'.groundingMetadata = analysisState.groundingMetadata]_vars

\* C12 witness: an image request succeeded with a vendor response that
\* carried grounding metadata, and the state holds none.
C12_Witness ==
    /\ lastEvent.op = "resolve"
    /\ lastEvent.kind = "IMAGE"
    /\ Val(lastEvent.resp).groundingMetadata # NULL
    /\ analysisState.groundingMetadata = NULL

\* C13: accepting a submission replaces the whole analysis state with
\* {isLoading: true, result: null, groundingMetadata: null, error: null},
\* and in every reachable state isLoading implies that result,
\* groundingMetadata and error are all null.
C13_LoadingStateIsClean ==
    /\ analysisState.isLoading =>
          /\ analysisState.result = NULL
          /\ analysisState.groundingMetadata = NULL
          /\ analysisState.error = NULL
    /\ lastEvent.dispatched =>
          analysisState = [isLoading |-> TRUE, result |-> NULL,
                           groundingMetadata |-> NULL, error |-> NULL]

\* C13 witness: a search was just accepted from the search panel by the
\* Find Leads button and the state is the loading state.
C13_Witness ==
    /\ lastEvent.op = "clickFindLeads"
    /\ lastEvent.dispatched
    /\ analysisState.isLoading
    /\ Len(inflight) = 1

\* C14: under the assumption that the awaited call eventually resolves or
\* rejects, every accepted submission is eventually followed by a state
\* with isLoading false in which exactly one of result and error is
\* non-null.
C14_SubmissionSettles ==
    lastEvent.dispatched ~>
        (/\ ~analysisState.isLoading
         /\ (analysisState.result # NULL) # (analysisState.error # NULL))

\* C14 witness: an audit request has settled with a result and no error.
C14_Witness ==
    /\ lastEvent.op = "resolve"
    /\ lastEvent.kind = "SELF_AUDIT"
    /\ ~analysisState.isLoading
    /\ analysisState.result # NULL
    /\ analysisState.error = NULL
    /\ inflight = <<>>

----------------------------------------------------------------------------
(* Properties of voice dictation (SpecVoice, SpecDictation) *)

\* sessions the application started that the browser has not been asked to
\* stop and that have neither failed nor ended
Live(sess) == {s \in 1..Len(sess) : sess[s] \in {"starting", "capturing"}}

\* C15: a toggle while isListening is true stops the session recognitionRef
\* refers to, sets isListening to false and starts no session; a toggle
\* while isListening is false starts exactly one new session when the
\* browser supports speech recognition, and otherwise starts nothing and
\* leaves isListening false.
C15_ToggleStartsAndStops ==
    [][lastEvent'.handler = "toggleListening" =>
          IF isListening THEN
              /\ isListening' = FALSE
              /\ Len(sessions') = Len(sessions)
              /\ recognitionRef # NULL => Val(recognitionRef) \notin Live(sessions')
              /\ \A s \in 1..Len(sessions) :
                    recognitionRef # Some(s) => sessions'[s] = sessions[s]
          ELSE IF speechSupported THEN
              /\ Len(sessions') = Len(sessions) + 1
              /\ SubSeq(sessions', 1, Len(sessions)) = sessions
              /\ sessions'[Len(sessions')] = "starting"
              /\ recognitionRef' = Some(Len(sessions'))
          ELSE
              /\ sessions' = sessions
              /\ isListening' = FALSE
              /\ lastEvent'.alert]_vars

\* C15 witness: the user has stopped a capturing session with the toggle.
C15_Witness ==
    /\ lastEvent.handler = "toggleListening"
    /\ ~isListening
    /\ recognitionRef # NULL
    /\ sessions[Val(recognitionRef)] = "stopping"

\* C16 (as claimed): at most one session the application started is
\* capturing at any time, and every session it started and has not stopped
\* is the one recognitionRef refers to, so that it can still be stopped.
C16_SingleSession ==
    /\ Cardinality({s \in 1..Len(sessions) : sessions[s] = "capturing"}) <= 1
    /\ \A s \in Live(sessions) : recognitionRef = Some(s)

VoiceOps == {"clickMic", "onstart", "onend", "onerror", "onresult"}

\* C17: a toggle of dictation and every recognition event leave
\* analysisState and the pending request as they are; submitting a request
\* and its response leave isListening, recognitionRef and every session as
\* they are; an audit request carries the description as it was when it was
\* submitted, and the result stored is that of the vendor's response.
C17_DictationAndRequestsIndependent ==
    [][/\ lastEvent'.op \in VoiceOps =>
             /\ analysisState' = analysisState
             /\ inflight' = inflight
       /\ (lastEvent'.handler \in SubmitHandlers \/ lastEvent'.op \in SettleOps) =>
             /\ isListening' = isListening
             /\ recognitionRef' = recognitionRef
             /\ sessions' = sessions
       /\ (lastEvent'.dispatched /\ lastEvent'.kind = "SELF_AUDIT") =>
             /\ Len(inflight') = Len(inflight) + 1
             /\ inflight'[Len(inflight')].text = auditDescription
       /\ lastEvent'.op = "resolve" =>
             analysisState'.result =
                 Some(C11_ExpectedText(lastEvent'.kind, Val(lastEvent'.resp).text))]_vars

\* C17 witness: while an audit request is in flight and a session is
\* capturing, a dictated sentence has changed the description, which now
\* differs from the one the request carries.
C17_Witness ==
    /\ lastEvent.op = "onresult"
    /\ analysisState.isLoading
    /\ Len(inflight) = 1
    /\ inflight[1].kind = "SELF_AUDIT"
    /\ inflight[1].text # auditDescription
    /\ isListening

IsFinalResult(r) == r.isFinal

\* C19: a result event changes the audit description only by appending.
\* When none of the event's new results is final, or their transcripts are
\* empty, the description is unchanged; otherwise the concatenated
\* transcripts of the new final results are appended, after one space
\* exactly when the description was non-empty and did not end with a space.
\* The previous description is always a prefix of the new one.
C19_ResultOnlyAppends ==
    [][lastEvent'.op = "onresult" =>
          LET e == Val(lastEvent'.event)
              new == SubSeq(e.results, e.resultIndex + 1, Len(e.results))
              fin == SelectSeq(new, IsFinalResult)
              finals == Concat([i \in 1..Len(fin) |-> fin[i].transcript])
              old == auditDescription
              spaced == old # <<>> /\ old[Len(old)] # SP
          IN
          /\ Len(auditDescription') >= Len(old)
          /\ SubSeq(auditDescription', 1, Len(old)) = old
          /\ finals = <<>> => auditDescription' = old
          /\ finals # <<>> =>
                auditDescription' = old \o (IF spaced THEN <<SP>> ELSE <<>>) \o finals]_vars

\* C19 witness: an event with a final and an interim result has appended
\* the final transcript, after a space, to a description that ended in a
\* letter.
C19_Witness ==
    /\ lastEvent.op = "onresult"
    /\ Val(lastEvent.event).results = <<Final(<<"x">>), Interim(<<"y">>)>>
    /\ auditDescription = <<"a", SP, "x">>

----------------------------------------------------------------------------
(* Properties of the export (SpecCsv) *)

Exported == lastEvent.handler = "handleExportCSV"

\* the chunk list of the props, empty when there is none
PropsChunks ==
    LET gm == analysisState.groundingMetadata IN
    IF gm = NULL \/ Val(gm).groundingChunks = NULL THEN <<>>
    ELSE Val(Val(gm).groundingChunks)

IsMapPlace(chunk) == chunk.maps # NULL

MapPlaces == SelectSeq(PropsChunks, IsMapPlace)

HasResult == analysisState.result # NULL /\ analysisState.result # Some(<<>>)

\* C8: an export in SEARCH mode with at least one map-place chunk is the
\* header 'Business Name,Address,Google Maps Link' followed by one row per
\* map-place chunk, in the order of the chunk list; chunks that are only web
\* links (or nothing) produce no row.
C8_LeadListRows ==
    (Exported /\ HasResult /\ mode = "SEARCH" /\ MapPlaces # <<>>) =>
        lastEvent.download =
            Some(<<"Business Name", COMMA, "Address", COMMA, "Google Maps Link", NL>>
                 \o Concat([i \in 1..Len(MapPlaces) |->
                               LeadRow(Val(MapPlaces[i].maps)) \o <<NL>>]))

\* C8 witness: an export of a chunk list that holds a web link, a chunk with
\* both a web link and a map place, and two map places.
C8_Witness ==
    /\ Exported
    /\ lastEvent.download # NULL
    /\ mode = "SEARCH"
    /\ PropsChunks = <<WebOnlyChunk, MapsChunk("b"), BothChunk>>

FieldValue(o) == IF o = NULL THEN <<>> ELSE Val(o)

\* C9 (as claimed): every data row of the exported lead list reads back as a
\* CSV record of exactly three fields, the chunk's title, address and link,
\* a missing one as the empty field.
C9_RowsWellFormed ==
    (Exported /\ HasResult /\ mode = "SEARCH" /\ MapPlaces # <<>>) =>
        LET p == ParseCsv(Val(lastEvent.download)) IN
        /\ p.ok
        /\ Len(p.records) = 1 + Len(MapPlaces)
        /\ \A i \in 1..Len(MapPlaces) :
              LET m == Val(MapPlaces[i].maps) IN
              p.records[i + 1] =
                  <<FieldValue(m.title), FieldValue(m.address),
                    FieldValue(m.googleMapsUriString)>>

NumQuotes(s) == Cardinality({i \in 1..Len(s) : s[i] = QUOTE})

\* C10: the export does nothing without a result; otherwise it is the lead
\* list exactly when the mode is SEARCH and some chunk is a map place, and in
\* every other case the header 'Date,Type,Analysis Content' and one record:
\* the timestamp, the mode and the result text in double quotes with every
\* inner double quote doubled.
C10_ExportFormat ==
    Exported =>
        LET d == lastEvent.download
            now == Val(lastEvent.now)
            lead == mode = "SEARCH" /\ MapPlaces # <<>>
        IN
        IF ~HasResult THEN d = NULL
        ELSE
            /\ d # NULL
            /\ lead <=> SubSeq(Val(d), 1, 6) =
                    <<"Business Name", COMMA, "Address", COMMA, "Google Maps Link", NL>>
            /\ ~lead =>
                  LET r == Val(analysisState.result)
                      body == SubSeq(Val(d), 7, Len(Val(d)))
                  IN
                  /\ SubSeq(Val(d), 1, 6) =
                        <<"Date", COMMA, "Type", COMMA, "Analysis Content", NL>>
                  /\ SubSeq(body, 1, Len(now) + 4) = now \o <<COMMA, mode, COMMA, QUOTE>>
                  /\ body[Len(body)] = QUOTE
                  /\ Len(body) = Len(now) + 5 + Len(r) + NumQuotes(r)
                  /\ ParseCsv(Val(d)) =
                        [ok |-> TRUE,
                         records |-> << <<<<"Date">>, <<"Type">>, <<"Analysis Content">>>>,
                                        <<now, <<mode>>, r>> >>]

\* C10 witness: a generic export in SEARCH mode (no map place among the
\* chunks) of a result text that holds double quotes.
C10_Witness ==
    /\ Exported
    /\ lastEvent.download # NULL
    /\ mode = "SEARCH"
    /\ PropsChunks = <<WebOnlyChunk>>
    /\ NumQuotes(Val(analysisState.result)) > 0

----------------------------------------------------------------------------
(* Properties of the rendering (SpecRender) *)

\* the chunk carries a web link or a map-place record
C18_Carries(chunk) == chunk.web # NULL \/ chunk.maps # NULL

\* how many of the first i chunks carry a web link or a map-place record
C18_Rank(chunks, i) == Cardinality({j \in 1..i : C18_Carries(chunks[j])})

\* C18: in the result view the 'Identified Locations' section is omitted
\* when there is no grounding metadata, no chunk list or no chunk with a
\* web link or a map-place record; otherwise it lists exactly those
\* chunks, in the order of the chunk list, one item each: the map place
\* (title, address, maps link) for a chunk with a map-place record, whether
\* or not it also has a web link, and the web link for the others.
C18_IdentifiedLocations ==
    (lastEvent.op = "render" /\ lastEvent.view = "result") =>
        LET chunks == PropsChunks
            n == C18_Rank(chunks, Len(chunks))
            section == lastEvent.section
        IN
        IF n = 0 THEN section = NULL
        ELSE
            /\ section # NULL
            /\ Len(Val(section)) = n
            /\ \A i \in 1..Len(chunks) :
                  C18_Carries(chunks[i]) =>
                      LET item == Val(section)[C18_Rank(chunks, i)] IN
                      IF chunks[i].maps # NULL
                      THEN /\ item.type = "maps"
                           /\ item.href = Val(chunks[i].maps).googleMapsUriString
                           /\ item.title = Val(chunks[i].maps).title
                           /\ item.address = Val(chunks[i].maps).address
                      ELSE /\ item.type = "web"
                           /\ item.href = Val(chunks[i].web).uri

\* C18 witness: the section rendered for a chunk list that holds a web
\* link, a chunk with neither, and a chunk with both.
C18_Witness ==
    /\ lastEvent.op = "render"
    /\ lastEvent.view = "result"
    /\ PropsChunks = <<WebOnlyChunk, EmptyChunk, BothChunk>>
    /\ lastEvent.section # NULL
    /\ Len(Val(lastEvent.section)) = 2

----------------------------------------------------------------------------
(* Properties of the session with settings (SpecForm) *)

\* C20: a click on a button of the mode switcher, and every step that
\* changes the mode, leaves analysisState, the selected image, the business
\* name, the search query, the audit description, the pitch tone, the pitch
\* length and the language as they are, and leaves the pending request as
\* it is: none is cancelled and none is started.
C20_ModeSwitchChangesOnlyMode ==
    [][(lastEvent'.op = "setMode" \/ mode' # mode) =>
          /\ analysisState' = analysisState
          /\ selectedImage' = selectedImage
          /\ businessName' = businessName
          /\ searchQuery' = searchQuery
          /\ auditDescription' = auditDescription
          /\ pitchTone' = pitchTone
          /\ pitchLength' = pitchLength
          /\ language' = language
          /\ inflight' = inflight
          /\ ~lastEvent'.dispatched]_vars

\* C20 witness: the user has switched to the audit panel while an image
\* request is in flight, with every setting changed from its default.
C20_Witness ==
    /\ lastEvent.op = "setMode"
    /\ mode = "SELF_AUDIT"
    /\ analysisState.isLoading
    /\ Len(inflight) = 1
    /\ inflight[1].kind = "IMAGE"
    /\ selectedImage # NULL
    /\ businessName # <<>>
    /\ pitchTone = "PAIN_FOCUSED"
    /\ pitchLength = "SHORT"
    /\ language = "Portuguese (Portugal)"

----------------------------------------------------------------------------
(* handleAnalyzeImage as a function of the form and the analysis state *)

\* analysis states the handler can find: idle, a result with or without
\* grounding metadata, an error, and a search still loading
HandlerStates ==
    {IdleState,
     [IdleState EXCEPT !.result = Some(<<"r">>)],
     [IdleState EXCEPT !.result = Some(<<"r">>),
                       !.groundingMetadata = Some([groundingChunks |-> NULL])],
     [IdleState EXCEPT !.error = Some(<<"Error searching leads: quota exceeded">>)],
     LoadingState}

InitAnalyze ==
    /\ mode = "IMAGE"
    /\ apiKey \in BOOLEAN
    /\ selectedImage \in {NULL} \cup {Some(f) : f \in Files}
    /\ businessName \in TypedStrings
    /\ searchQuery = <<"Roofing companies in Miami">>
    /\ auditDescription = <<>>
    /\ analysisState \in HandlerStates
    /\ inflight = IF analysisState.isLoading
                  THEN <<NewRequest("SEARCH", NULL, searchQuery, CallsIssued("SEARCH"))>>
                  ELSE <<>>
    /\ pitchTone = "STANDARD"
    /\ pitchLength = "STANDARD"
    /\ language = "English"
    /\ isListening = FALSE
    /\ recognitionRef = NULL
    /\ sessions = <<>>
    /\ speechSupported = TRUE
    /\ lastEvent = Ev("init")
    /\ ComponentsInit

\* handleAnalyzeImage called once on the state as it is
CallAnalyzeImage ==
    /\ lastEvent.op = "init"
    /\ handleAnalyzeImage("callAnalyzeImage")
    /\ UNCHANGED <<settingsVars, voiceVars,
                   mode, apiKey, selectedImage, businessName, searchQuery,
                   auditDescription>>
    /\ resultMode' = IF lastEvent'.dispatched THEN "none" ELSE resultMode
    /\ UNCHANGED <<uploaderVars, mounted>>
    /\ AnalysisResultEffect

NextAnalyze == CallAnalyzeImage

SpecAnalyze == InitAnalyze /\ [][NextAnalyze]_vars

\* C21: a call of handleAnalyzeImage with an image and a blank business name
\* sets error to the fixed message and leaves isLoading, result and
\* groundingMetadata as they were; a call without an image changes nothing of
\* the analysis state; neither call dispatches a request.
C21_RejectionLeavesStateAlone ==
    [][lastEvent'.handler = "handleAnalyzeImage" =>
          /\ (selectedImage = NULL =>
                /\ analysisState' = analysisState
                /\ inflight' = inflight
                /\ ~lastEvent'.dispatched)
          /\ (selectedImage # NULL /\ Trim(businessName) = <<>> =>
                /\ analysisState'.error =
                      Some(<<"Please enter a valid Business Name before proceeding.">>)
                /\ analysisState'.isLoading = analysisState.isLoading
                /\ analysisState'.result = analysisState.result
                /\ analysisState'.groundingMetadata = analysisState.groundingMetadata
                /\ inflight' = inflight
                /\ ~lastEvent'.dispatched)]_vars

\* the handler has turned a blank name down while a result was on display
C21_Witness ==
    /\ lastEvent.op = "callAnalyzeImage"
    /\ lastEvent.missing
    /\ selectedImage # NULL
    /\ analysisState.result # NULL
    /\ analysisState.error # NULL

----------------------------------------------------------------------------
(* The analysis state as the UI can make it *)

\* C22: in every state reachable through the UI the analysis state never holds
\* a result together with an error, and never grounding metadata without a
\* result.
C22_ResultAndErrorExclusive ==
    /\ ~(analysisState.result # NULL /\ analysisState.error # NULL)
    /\ (analysisState.groundingMetadata # NULL => analysisState.result # NULL)

\* a result is on display, an image is selected and the name has been blanked:
\* the state in which only the disabled button keeps the handler's
\* error-on-top update away
C22_Witness ==
    /\ analysisState.result # NULL
    /\ analysisState.groundingMetadata = NULL
    /\ mode = "IMAGE"
    /\ apiKey
    /\ selectedImage # NULL
    /\ Trim(businessName) = <<>>

----------------------------------------------------------------------------
(* Submissions and the API key *)

\* C23 (as claimed): while the API key is absent no user action dispatches a
\* request: neither a click on one of the three submit buttons nor Enter in the
\* search field gets a service function called.
C23_NoDispatchWithoutKey ==
    lastEvent.dispatched => apiKey

----------------------------------------------------------------------------
(* The listening indicator *)

\* no start, end or error event of any session is still to be delivered
NoRecognitionEventPending ==
    \A s \in 1..Len(sessions) : sessions[s] \in {"capturing", "ended"}

\* C25 (as claimed): in every state where no recognition event is pending,
\* isListening is true exactly when a session the application started is still
\* capturing, whatever the interleaving of toggles with the start, end and
\* error events of the current and of earlier sessions.
C25_IndicatorMatchesCapture ==
    NoRecognitionEventPending =>
        (isListening <=> \E s \in 1..Len(sessions) : sessions[s] = "capturing")

----------------------------------------------------------------------------
(* The form while a request is in flight *)

\* C26 (as claimed): while a request is in flight the selected image, the
\* business name, the search query, the pitch tone, the pitch length and the
\* language cannot be changed, so that they are the same when the response
\* arrives as when the request was submitted.
C26_InputsFrozenInFlight ==
    [][analysisState.isLoading =>
          UNCHANGED <<selectedImage, businessName, searchQuery,
                      pitchTone, pitchLength, language>>]_vars

----------------------------------------------------------------------------
(* The mode a result is presented under *)

\* C24 (as claimed): a result is always presented under the mode that produced
\* it: whenever a result is displayed or exported, the mode that AnalysisResult
\* uses (for the self-audit call to action, the CSV format, the CSV 'Type'
\* column and the file name) is the mode of the request that returned it.
C24_PresentedUnderProducingMode ==
    /\ (View(analysisState) = "result" => mode = resultMode)
    /\ (lastEvent.handler = "handleExportCSV" /\ lastEvent.download # NULL =>
            mode = resultMode)

----------------------------------------------------------------------------
(* The loading view over time: a search session with the two intervals of   *)
(* AnalysisResult firing                                                     *)

\* the callback of setInterval(..., 200)
ProgressTick ==
    /\ intervals.progress > 0
    /\ progress' = ProgressStep(progress)
    /\ lastEvent' = Ev("progressTick")
    /\ UNCHANGED <<settingsVars, voiceVars, uploaderVars, resultMode,
                   mode, apiKey, selectedImage, businessName, searchQuery,
                   auditDescription, analysisState, inflight,
                   messageIndex, intervals, mounted>>

\* the callback of setInterval(..., 2000)
MessageTick ==
    /\ intervals.message > 0
    /\ messageIndex' = MessageStep(messageIndex, mode)
    /\ lastEvent' = Ev("messageTick")
    /\ UNCHANGED <<settingsVars, voiceVars, uploaderVars, resultMode,
                   mode, apiKey, selectedImage, businessName, searchQuery,
                   auditDescription, analysisState, inflight,
                   progress, intervals, mounted>>

\* the component is unmounted with the application: React runs the cleanup
\* of the effect's last run
Unmount ==
    /\ mounted
    /\ mounted' = FALSE
    /\ intervals' = Cleanup(intervals)
    /\ lastEvent' = Ev("unmount")
    /\ UNCHANGED <<settingsVars, voiceVars, uploaderVars, resultMode,
                   mode, apiKey, selectedImage, businessName, searchQuery,
                   auditDescription, analysisState, inflight,
                   progress, messageIndex>>

ProgressQuery == <<"Roofing companies in Miami">>

ProgressResponses == {[text |-> Some(<<"r", QUOTE>>), groundingMetadata |-> NULL]}

ProgressThrownValues == {[isError |-> TRUE, message |-> <<"quota exceeded">>]}

InitProgress ==
    /\ Init
    /\ apiKey = TRUE

NextProgress ==
    \/ mounted /\ \E m \in Modes : SetMode(m)
    \/ mounted /\ ClickSuggestion(ProgressQuery)
    \/ mounted /\ ClickFindLeads
    \/ mounted /\ \E i \in 1..Len(inflight), resp \in ProgressResponses :
                      GenerateResolves(i, resp)
    \/ mounted /\ \E i \in 1..Len(inflight), caught \in ProgressThrownValues :
                      GenerateRejects(i, caught)
    \/ ProgressTick
    \/ MessageTick
    \/ Unmount

SpecProgress == InitProgress /\ [][NextProgress]_vars

\* C27 (as claimed): during a loading period the progress starts at 0 and
\* never exceeds 95, so that the loading view never shows 100% before the
\* response arrives; whenever isLoading is false the progress is 100.
C27_ProgressWithinCap ==
    /\ (analysisState.isLoading => progress >= 0 /\ progress <= ProgressCap)
    /\ (lastEvent.dispatched => progress = 0)
    /\ (~analysisState.isLoading => progress = ProgressDone)

\* the parts of C27 that the code keeps: a tick never lowers the progress, the
\* rounded percentage of the loading view stays below 100, and the progress is
\* 100 whenever isLoading is false
C27_TickNeverDecreases ==
    [][lastEvent'.op = "progressTick" => progress' >= progress]_vars

C27_NeverShowsHundred ==
    /\ (analysisState.isLoading => (2 * progress + Resolution) \div (2 * Resolution) < 100)
    /\ (lastEvent.dispatched => progress = 0)
    /\ (~analysisState.isLoading => progress = ProgressDone)

\* C28: messageIndex is always a valid index of the step list of the current
\* mode: it is 0 when loading starts, a tick raises it by at most one, it
\* stays at the last step, and 0 <= messageIndex <= steps.length - 1 in every
\* reachable state.
C28_MessageIndexValid ==
    /\ [](messageIndex >= 0 /\ messageIndex <= StepsLength(mode) - 1)
    /\ [][/\ (analysisState'.isLoading /\ ~analysisState.isLoading =>
                  messageIndex' = 0)
          /\ (lastEvent'.op = "messageTick" =>
                  /\ messageIndex' \in {messageIndex, messageIndex + 1}
                  /\ (messageIndex = StepsLength(mode) - 1 =>
                          messageIndex' = messageIndex))]_vars

\* the message interval has brought the index to the last step
C28_Witness ==
    /\ analysisState.isLoading
    /\ lastEvent.op = "messageTick"
    /\ messageIndex = StepsLength(mode) - 1

\* C29: timers exist only while loading: at most one progress interval and
\* one message interval are set at any time, both are cleared when loading
\* ends, when the mode changes during loading (the effect then sets a new
\* pair) and on unmount, and none is set while isLoading is false.
C29_TimersOnlyWhileLoading ==
    /\ intervals.progress \in {0, 1}
    /\ intervals.message \in {0, 1}
    /\ (~analysisState.isLoading => intervals = NoIntervals)
    /\ (~mounted => intervals = NoIntervals)
    /\ (analysisState.isLoading /\ mounted =>
            intervals = [progress |-> 1, message |-> 1])

\* the component was unmounted in the middle of a loading period, after the
\* mode had been changed during it
C29_Witness ==
    /\ lastEvent.op = "unmount"
    /\ analysisState.isLoading
    /\ mode # "SEARCH"
    /\ progress > 0
    /\ intervals = NoIntervals

----------------------------------------------------------------------------
(* The preview's object URL *)

\* C30: at most one preview object URL is live at any time: selecting a file
\* creates one URL and happens only while no image is selected, clearing
\* revokes the URL of the selected image and sets the selection to null,
\* nothing is revoked while no image is selected, and after every sequence of
\* select and clear actions every created URL except the one of the selected
\* image has been revoked.
C30_OnePreviewUrl ==
    /\ [](/\ Cardinality(objectUrls) <= 1
          /\ (selectedImage = NULL <=> previewUrl = NULL)
          /\ objectUrls = (IF selectedImage = NULL THEN {} ELSE {Val(previewUrl)}))
    /\ [][/\ (lastEvent'.op = "selectImage" =>
                  /\ selectedImage = NULL
                  /\ selectedImage' # NULL
                  /\ Cardinality(objectUrls') = Cardinality(objectUrls) + 1)
          /\ (lastEvent'.op = "clearImage" =>
                  /\ selectedImage # NULL
                  /\ Val(previewUrl) \notin objectUrls'
                  /\ selectedImage' = NULL)
          /\ (selectedImage = NULL /\ lastEvent'.op # "selectImage" =>
                  objectUrls' = objectUrls)]_vars

\* an image was selected after the one whose analysis is on display had been
\* cleared
C30_Witness ==
    /\ lastEvent.op = "selectImage"
    /\ analysisState.result # NULL
    /\ resultMode = "IMAGE"
    /\ objectUrls = {Val(previewUrl)}

====
